---- MODULE Spec2Model ----
(***************************************************************************)
(* Karoospikes webhook relay (src/app.py): POST /signal is decoded,        *)
(* validated, formatted and forwarded to the Telegram sendMessage API.     *)
(*                                                                         *)
(* Python values are tagged records [t, n, s]: t is the Python type, n the *)
(* number (finite floats and ints in units of 10^-6, a bool as 0/1) and s  *)
(* the text of a str, a sequence of chunks (single characters wherever the *)
(* code looks inside the string).                                          *)
(***************************************************************************)
EXTENDS Integers, Sequences, FiniteSets, TLC

VARIABLES
    req,       \* per request: method, route and body as sent by the caller
    pc,        \* per request: position of its handler
    data,      \* per request: value bound to `data` by request.get_json()
    token,     \* per request: local bot_token of receive_signal
    conf,      \* per request: local confidence of receive_signal
    message,   \* per request: local message of receive_signal
    chat,      \* per request: local chat_id of receive_signal
    nowRead,   \* per request: clock reading taken by format_signal
    posts,     \* per request: outbound sendMessage POSTs issued, in order
    remote,    \* per request: what the remote call did
    sent,      \* per request: the pair returned by send_to_telegram
    fault,     \* per request: exception caught by the outermost except
    resp,      \* per request: the HTTP response returned
    clock,     \* wall clock, epoch seconds
    build      \* installed library generation, fixed for the deployment

vars == <<req, pc, data, token, conf, message, chat, nowRead, posts, remote,
          sent, fault, resp, clock, build>>

-----------------------------------------------------------------------------
(* Bounds of the model *)

MaxTicks == 2
NumReqs == 2

(* Program constants *)

MinTokenLen == 10
MaxConfidence == 100
PostTimeout == 15
Clock0 == 24 * 3600 - 1

Micro == 10 ^ 6

-----------------------------------------------------------------------------
(* Python values *)

Range(f) == {f[i] : i \in DOMAIN f}

Val(t, n, s) == [t |-> t, n |-> n, s |-> s]
Absent == Val("absent", 0, <<>>)
None == Val("None", 0, <<>>)
Num(n) == Val("num", n, <<>>)
NaN == Val("nan", 0, <<>>)
Inf == Val("inf", 0, <<>>)
Bool(b) == Val("bool", IF b THEN 1 ELSE 0, <<>>)
Str(s) == Val("str", 0, s)
List == Val("list", 0, <<>>)

Digits == <<"0", "1", "2", "3", "4", "5", "6", "7", "8", "9">>
IsDigit(c) == \E i \in 1..10 : Digits[i] = c
DigitVal(c) == (CHOOSE i \in 1..10 : Digits[i] = c) - 1

RECURSIVE NatChars(_)
NatChars(n) == IF n < 10 THEN <<Digits[n + 1]>>
               ELSE NatChars(n \div 10) \o <<Digits[(n % 10) + 1]>>

RECURSIVE DigitsVal(_)
DigitsVal(cs) == IF cs = <<>> THEN 0
                 ELSE 10 * DigitsVal(SubSeq(cs, 1, Len(cs) - 1)) + DigitVal(cs[Len(cs)])

AllDigits(cs) == cs # <<>> /\ \A i \in 1..Len(cs) : IsDigit(cs[i])

RECURSIVE Pow10(_)
Pow10(k) == IF k = 0 THEN 1 ELSE 10 * Pow10(k - 1)

Trunc(n) == IF n >= 0 THEN n \div Micro ELSE -((-n) \div Micro)

(* str.strip(): leading and trailing blanks removed *)
RECURSIVE LStrip(_)
LStrip(cs) == IF cs # <<>> /\ cs[1] = " " THEN LStrip(Tail(cs)) ELSE cs
RECURSIVE RStrip(_)
RStrip(cs) == IF cs # <<>> /\ cs[Len(cs)] = " "
              THEN RStrip(SubSeq(cs, 1, Len(cs) - 1)) ELSE cs
Strip(cs) == RStrip(LStrip(cs))

(* str(x) and the {x} of an f-string *)
PyStr(x) ==
    CASE x.t = "str" -> x.s
      [] x.t = "None" -> <<"None">>
      [] x.t = "nan" -> <<"n", "a", "n">>
      [] x.t = "inf" -> <<"i", "n", "f">>
      [] x.t = "bool" -> IF x.n = 1 THEN <<"True">> ELSE <<"False">>
      [] x.t = "list" -> <<"[", "]">>
      [] x.t = "num" ->
            (IF x.n < 0 THEN <<"-">> ELSE <<>>)
            \o NatChars((IF x.n < 0 THEN -x.n ELSE x.n) \div Micro)
            \o (IF x.n % Micro = 0 THEN <<>>
                ELSE <<".", ToString((IF x.n < 0 THEN -x.n ELSE x.n) % Micro)>>)
      [] OTHER -> <<>>

(* Outcome of a conversion: a value or the exception it raises *)
Ok(v) == [exc |-> "", val |-> v]
Raise(e) == [exc |-> e, val |-> Absent]

(* float(str): optional sign, digits, optional fraction; "nan" and "inf" *)
FloatOfStr(cs0) ==
    LET cs == Strip(cs0)
        neg == cs # <<>> /\ cs[1] = "-"
        body == IF neg THEN Tail(cs) ELSE cs
        dots == {i \in 1..Len(body) : body[i] = "."}
        ip == IF dots = {} THEN body
              ELSE SubSeq(body, 1, (CHOOSE i \in dots : TRUE) - 1)
        fp == IF dots = {} THEN <<>>
              ELSE SubSeq(body, (CHOOSE i \in dots : TRUE) + 1, Len(body))
        mag == DigitsVal(ip) * Micro
               + (IF Len(fp) <= 6 THEN DigitsVal(fp) * Pow10(6 - Len(fp))
                  ELSE DigitsVal(SubSeq(fp, 1, 6)))
    IN  IF body = <<"n", "a", "n">> THEN Ok(NaN)
        ELSE IF body = <<"i", "n", "f">> /\ ~neg THEN Ok(Inf)
        ELSE IF /\ Cardinality(dots) <= 1
                /\ ip \o fp # <<>>
                /\ \A i \in 1..Len(ip) : IsDigit(ip[i])
                /\ \A i \in 1..Len(fp) : IsDigit(fp[i])
             THEN Ok(Num(IF neg THEN -mag ELSE mag))
        ELSE Raise("ValueError")

(* float(x) *)
PyFloat(x) ==
    CASE x.t = "num" -> Ok(x)
      [] x.t = "nan" -> Ok(NaN)
      [] x.t = "inf" -> Ok(Inf)
      [] x.t = "bool" -> Ok(Num(x.n * Micro))
      [] x.t = "str" -> FloatOfStr(x.s)
      [] OTHER -> Raise("TypeError")

(* int(x) *)
PyInt(x) ==
    CASE x.t = "num" -> Ok(Num(Trunc(x.n) * Micro))
      [] x.t = "nan" -> Raise("ValueError")
      [] x.t = "inf" -> Raise("OverflowError")
      [] x.t = "bool" -> Ok(Num(x.n * Micro))
      [] x.t = "str" ->
            LET cs == Strip(x.s)
                neg == cs # <<>> /\ cs[1] = "-"
                body == IF neg THEN Tail(cs) ELSE cs
            IN  IF AllDigits(body)
                THEN Ok(Num((IF neg THEN -1 ELSE 1) * DigitsVal(body) * Micro))
                ELSE Raise("ValueError")
      [] OTHER -> Raise("TypeError")

(* x <= 0 on a float: every comparison with nan is false *)
LeZero(x) == CASE x.t = "num" -> x.n <= 0
               [] OTHER -> FALSE

(* format(x, ".5f") *)
Fmt5(x) ==
    CASE x.t \in {"num", "bool"} ->
            LET n == IF x.t = "bool" THEN x.n * Micro ELSE x.n
                a == IF n < 0 THEN -n ELSE n
                r == (a + 5) \div 10
                f == r % Pow10(5)
            IN  Ok(Str((IF n < 0 /\ r # 0 THEN <<"-">> ELSE <<>>)
                       \o NatChars(r \div Pow10(5)) \o <<".">>
                       \o <<Digits[(f \div 10000) + 1],
                            Digits[((f \div 1000) % 10) + 1],
                            Digits[((f \div 100) % 10) + 1],
                            Digits[((f \div 10) % 10) + 1],
                            Digits[(f % 10) + 1]>>))
      [] x.t = "nan" -> Ok(Str(<<"n", "a", "n">>))
      [] x.t = "inf" -> Ok(Str(<<"i", "n", "f">>))
      [] x.t = "str" -> Raise("ValueError")
      [] OTHER -> Raise("TypeError")

-----------------------------------------------------------------------------
(* JSON objects: a dict is a function on Keys, Absent marking a missing key *)

Required == <<"signal_type", "symbol", "entry_price", "tp_price", "sl_price",
              "bot_token">>
Optional == {"confidence", "signal_category", "timestamp", "channel_id", "chat_id"}
Keys == Range(Required) \cup Optional

EmptyDict == [k \in Keys |-> Absent]

(* data.get(key, default) *)
Get(d, k, default) == IF d[k].t = "absent" THEN default ELSE d[k]

(* a decoded JSON value: a dict, or any other value *)
Dict(d) == [isdict |-> TRUE, scalar |-> Absent, obj |-> d]
Scalar(v) == [isdict |-> FALSE, scalar |-> v, obj |-> EmptyDict]
Undecoded == Scalar(Absent)

(* bool(x) of a decoded value *)
Truthy(x) ==
    IF x.isdict THEN \E k \in Keys : x.obj[k].t # "absent"
    ELSE CASE x.scalar.t \in {"None", "absent", "list"} -> FALSE
           [] x.scalar.t \in {"num", "bool"} -> x.scalar.n # 0
           [] x.scalar.t = "str" -> x.scalar.s # <<>>
           [] OTHER -> TRUE

(* HTTP responses: jsonify(body), code *)
Response(code, status, msg, extra) ==
    [code |-> code, status |-> status, message |-> msg, signal_type |-> Absent,
     symbol |-> Absent, confidence |-> Absent, extra |-> extra]
NoResponse == Response(0, "", Absent, "")

-----------------------------------------------------------------------------
(* format_signal *)

Rep(c, n) == [i \in 1..n |-> c]
DashCount == 35

TwoDigits(n) == <<Digits[(n \div 10) + 1], Digits[(n % 10) + 1]>>

(* dt.strftime("%H:%M:%S") of an epoch second *)
TimeStr(secs) ==
    LET d == secs % (24 * 3600)
    IN  TwoDigits(d \div 3600) \o <<":">> \o TwoDigits((d \div 60) % 60)
        \o <<":">> \o TwoDigits(d % 60)

(* dt.strftime("%Y.%m.%d"), rendered as the day count since the epoch *)
DateStr(secs) == <<"day">> \o NatChars(secs \div (24 * 3600))

(* datetime.fromtimestamp / datetime.now: the epoch second of dt, or the exception *)
SignalTime(d, now) ==
    LET timestamp == Get(d, "timestamp", Num(0))
    IN  IF d["timestamp"].t = "absent" THEN Ok(Num(now))
        ELSE IF timestamp.t \in {"num", "bool"} THEN Ok(Num(Trunc(timestamp.n)))
        ELSE IF timestamp.t = "nan" THEN Raise("ValueError")
        ELSE IF timestamp.t = "inf" THEN Raise("OverflowError")
        ELSE Ok(Num(now))

format_signal(d, now) ==
    LET signal_type == Get(d, "signal_type", Str(<<"UNKNOWN">>))
        symbol == Get(d, "symbol", Str(<<"UNKNOWN">>))
        entry_price == Get(d, "entry_price", Num(0))
        tp_price == Get(d, "tp_price", Num(0))
        sl_price == Get(d, "sl_price", Num(0))
        confidence == Get(d, "confidence", Num(0))
        signal_category == Get(d, "signal_category", Str(<<"SIGNAL">>))
        dt == SignalTime(d, now)
        signal_indicator == IF signal_type = Str(<<"BUY">>)
                            THEN "BUY SIGNAL" ELSE "SELL SIGNAL"
        e == Fmt5(entry_price)
        t == Fmt5(tp_price)
        s == Fmt5(sl_price)
    IN  IF dt.exc # "" THEN Raise(dt.exc)
        ELSE IF e.exc # "" THEN Raise(e.exc)
        ELSE IF t.exc # "" THEN Raise(t.exc)
        ELSE IF s.exc # "" THEN Raise(s.exc)
        ELSE Ok(Str(
            <<"KAROOSPIKES PREMIUM SIGNALS", "\n">> \o Rep("-", DashCount)
            \o <<"\n", "\n", signal_indicator, "\n", "\n">>
            \o PyStr(signal_category) \o <<"\n", "\n">>
            \o PyStr(signal_type) \o <<" ">> \o PyStr(symbol) \o <<"\n", "\n">>
            \o <<"Entry: ">> \o e.val.s \o <<"\n">>
            \o <<"Take Profit: ">> \o t.val.s \o <<"\n">>
            \o <<"Stop Loss: ">> \o s.val.s \o <<"\n", "\n">>
            \o <<"Confidence: ">> \o PyStr(confidence) \o <<"%", "\n">>
            \o <<"Time: ">> \o DateStr(dt.val.n) \o <<" ">> \o TimeStr(dt.val.n)
            \o <<"\n", "\n", "Professional Trading Signals", "\n",
                 "Support: @KaroospikesSupport", "\n",
                 "Risk Warning: Trading involves risk", "\n",
                 "Powered by Karoospikes", "\n", "\n">>
            \o Rep("-", DashCount)))

-----------------------------------------------------------------------------
(* send_to_telegram *)

(* What the remote call does: it times out, fails in transport, or answers with
   a status and a body (undecodable, a JSON value that is no object, or a JSON
   object with its ok and description members). *)
Outcome(kind, status, body, ok, desc) ==
    [kind |-> kind, status |-> status, body |-> body, ok |-> ok, desc |-> desc]
NoOutcome == Outcome("", 0, "", Absent, Absent)

Description == Str(<<"Bad Request: chat not found">>)

RemoteOutcomes ==
    {Outcome("timeout", 0, "", Absent, Absent),
     Outcome("transport", 0, "", Absent, Absent),
     Outcome("response", 200, "undecodable", Absent, Absent),
     Outcome("response", 200, "nonobject", Absent, Absent)}
    \cup {Outcome("response", st, "object", ok, d) :
            st \in {200, 400}, ok \in {Bool(TRUE), Bool(FALSE), Absent},
            d \in {Absent, Description}}

(* the outcomes of the concurrent runs: accepted, refused *)
ConcOutcomes ==
    {Outcome("response", 200, "object", Bool(TRUE), Absent),
     Outcome("response", 200, "object", Bool(FALSE), Description)}

TELEGRAM_API_URL(bot_token) ==
    <<"https://api.telegram.org/bot">> \o bot_token \o <<"/sendMessage">>

(* requests.post(url, json=payload, timeout=15) *)
OutboundPost(bot_token, msg, chat_id) ==
    [url |-> TELEGRAM_API_URL(bot_token), chat_id |-> chat_id, text |-> msg,
     disable_web_page_preview |-> TRUE, parse_mode |-> None,
     timeout |-> PostTimeout]

(* str(e) of the HTTPError raised by response.raise_for_status() *)
HTTPErrorText(o, url) ==
    <<ToString(o.status), IF o.status < 500 THEN " Client Error: " ELSE " Server Error: ",
      "for url: ">> \o url

Pair(success, error_msg) == [success |-> success, error_msg |-> error_msg]
NoPair == Pair(FALSE, Absent)

(* bool(result.get('ok')) *)
OkTruthy(o) == o.ok.t = "bool" /\ o.ok.n = 1

(* the try block of send_to_telegram on what the remote call did *)
send_to_telegram(url, o, lib) ==
    CASE o.kind = "timeout" -> Pair(FALSE, Str(<<"Request timeout">>))
      [] o.kind = "transport" ->
            Pair(FALSE, Str(<<"Network error: ", "Connection aborted">>))
      [] o.kind = "response" /\ o.status >= 400 ->
            Pair(FALSE, Str(<<"Network error: ">> \o HTTPErrorText(o, url)))
      [] o.kind = "response" /\ o.status < 400 /\ o.body = "undecodable" ->
            IF lib = "new"
            THEN Pair(FALSE, Str(<<"Network error: ", "Expecting value">>))
            ELSE Pair(FALSE, Str(<<"Unexpected error: ", "Expecting value">>))
      [] o.kind = "response" /\ o.status < 400 /\ o.body = "nonobject" ->
            Pair(FALSE, Str(<<"Unexpected error: ", "object has no attribute 'get'">>))
      [] OTHER ->
            IF OkTruthy(o) THEN Pair(TRUE, Str(<<"Success">>))
            ELSE Pair(FALSE, IF o.desc.t = "absent"
                             THEN Str(<<"Unknown Telegram error">>) ELSE o.desc)

-----------------------------------------------------------------------------
(* receive_signal *)

(* request.get_json(): the decoded value, or the HTTP exception werkzeug raises.
   A request without a JSON body yields None on the old library generation
   and raises on the new one. *)
get_json(body, lib) ==
    CASE body.kind = "json" -> Ok(body.value)
      [] body.kind = "malformed" -> Raise("BadRequest")
      [] OTHER -> IF lib = "old" THEN Ok(Scalar(None)) ELSE Raise("UnsupportedMediaType")

(* faulty variant: the generic handler reports the fault it caught *)
ReceiveSignalExceptLeaks(exc) ==
    IF exc = "JSONDecodeError"
    THEN Response(400, "error", Str(<<"Invalid JSON format">>), "")
    ELSE Response(500, "error", Str(<<"Internal server error: ", exc>>), "")

(* the two except clauses that close receive_signal *)
ReceiveSignalExcept(exc) ==
    IF exc = "JSONDecodeError"
    THEN Response(400, "error", Str(<<"Invalid JSON format">>), "")
    ELSE Response(500, "error", Str(<<"Internal server error">>), "")

(* missing_fields = [field for field in required_fields
                     if field not in data or data[field] is None] *)
MissingFields(d) ==
    SelectSeq(Required, LAMBDA f : d[f].t \in {"absent", "None"})

(* bot_token = str(data.get('bot_token', '')).strip() *)
BotToken(d) == Strip(PyStr(Get(d, "bot_token", Str(<<>>))))

InvalidToken(bot_token) ==
    \/ bot_token = <<>>
    \/ Len(bot_token) < MinTokenLen
    \/ ":" \notin Range(bot_token)

(* the inner try block: the coerced confidence, or the exception raised *)
NumericCheck(d) ==
    LET entry_price == PyFloat(Get(d, "entry_price", Num(0)))
        tp_price == PyFloat(Get(d, "tp_price", Num(0)))
        sl_price == PyFloat(Get(d, "sl_price", Num(0)))
        confidence == PyInt(Get(d, "confidence", Num(0)))
    IN  IF entry_price.exc # "" THEN entry_price
        ELSE IF tp_price.exc # "" THEN tp_price
        ELSE IF sl_price.exc # "" THEN sl_price
        ELSE IF confidence.exc # "" THEN confidence
        ELSE IF LeZero(entry_price.val) \/ LeZero(tp_price.val) \/ LeZero(sl_price.val)
             THEN [exc |-> "ValueError", val |-> Str(<<"Prices must be positive">>)]
        ELSE IF confidence.val.n < 0 \/ confidence.val.n > MaxConfidence * Micro
             THEN [exc |-> "ValueError",
                   val |-> Str(<<"Confidence must be between 0-100">>)]
        ELSE confidence

(* str(e) of the exception caught by except (ValueError, TypeError) *)
ErrText(r) == IF r.val.t = "str" THEN r.val.s ELSE <<"could not convert">>

(* chat_id = data.get('channel_id', data.get('chat_id', '@default_channel')) *)
ChatId(d) == Get(d, "channel_id", Get(d, "chat_id", Str(<<"@default_channel">>)))

SuccessResponse(d, confidence) ==
    [Response(200, "success", Str(<<"Signal sent to Telegram successfully">>), "")
       EXCEPT !.signal_type = Get(d, "signal_type", None),
              !.symbol = Get(d, "symbol", None),
              !.confidence = confidence]

FailureResponse(error_msg) ==
    Response(500, "error",
             Str(<<"Failed to send signal to Telegram: ">> \o PyStr(error_msg)), "")

-----------------------------------------------------------------------------
(* Requests the callers send *)

Body(kind, value) == [kind |-> kind, value |-> value]
NoBody == Body("absent", Undecoded)
Request(method, route, body) == [method |-> method, route |-> route, body |-> body]

TokGood == <<"1", "2", "3", "4", "5", "6", ":", "A", "B", "C", "D", "E", "F">>
TokPadded == <<" ", " ", " ", " ", "1", "2", ":", "A", "B", " ", " ", " ">>
TokNoColon == <<"1", "2", "3", "4", "5", "6", "7", "8", "9", "0", "A", "B">>

SignalTypes == {Str(<<"BUY">>), Str(<<"SELL">>), Absent}
Symbols == {Str(<<"EURUSD">>), Absent}
EntryPrices == {Num(1234567), Num(0), Str(<<"1", ".", "5">>), Str(<<"a", "b", "c">>),
                NaN, Inf, None, List, Absent}
TpPrices == {Num(1240000), Absent}
SlPrices == {Num(1230000), Absent}
Tokens == {Str(TokGood), Str(TokPadded), Str(TokNoColon), Absent}
Confidences == {Absent, Num(80 * Micro), Num(80 * Micro + 500000), Num(101 * Micro),
                Str(<<"h", "i", "g", "h">>), Inf}

(* the optional members that do not take part in validation *)
NoOptions == [signal_category |-> Absent, timestamp |-> Absent,
              channel_id |-> Absent, chat_id |-> Absent]
Options ==
    {NoOptions,
     [signal_category |-> Str(<<"SCALP">>), timestamp |-> Num(1999 * Micro),
      channel_id |-> Str(<<"@vip">>), chat_id |-> Str(<<"@chat">>)],
     [signal_category |-> Absent, timestamp |-> Str(<<"noon">>),
      channel_id |-> Absent, chat_id |-> Str(<<"@chat">>)]}

Payload(st, sy, ep, tp, sl, bt, cf, op) ==
    [signal_type |-> st, symbol |-> sy, entry_price |-> ep, tp_price |-> tp,
     sl_price |-> sl, bot_token |-> bt, confidence |-> cf,
     signal_category |-> op.signal_category, timestamp |-> op.timestamp,
     channel_id |-> op.channel_id, chat_id |-> op.chat_id]

Payloads ==
    {Payload(st, sy, ep, tp, sl, bt, cf, op) :
        st \in SignalTypes, sy \in Symbols, ep \in EntryPrices, tp \in TpPrices,
        sl \in SlPrices, bt \in Tokens, cf \in Confidences, op \in Options}

Bodies ==
    {NoBody, Body("malformed", Undecoded), Body("json", Scalar(None)),
     Body("json", Scalar(List)), Body("json", Scalar(Num(Micro)))}
    \cup {Body("json", Dict(d)) : d \in Payloads}

Example == Payload(Str(<<"BUY">>), Str(<<"EURUSD">>), Num(1234567), Num(1240000),
                   Num(1230000), Str(TokGood), Num(80 * Micro), NoOptions)

OtherRequests ==
    {Request("GET", "/health", NoBody), Request("GET", "/", NoBody),
     Request("GET", "/test", NoBody), Request("POST", "/test", NoBody),
     Request("POST", "/test", Body("malformed", Undecoded)),
     Request("POST", "/test", Body("json", Dict(Example))),
     Request("POST", "/nope", NoBody), Request("GET", "/signal", NoBody)}

Requests == {Request("POST", "/signal", b) : b \in Bodies} \cup OtherRequests

(* the requests of the concurrent runs *)
ConcPayloads ==
    {Example,
     [Example EXCEPT !.timestamp = Num(1999 * Micro), !.channel_id = Str(<<"@vip">>)],
     [Example EXCEPT !.sl_price = Absent]}
ConcRequests ==
    {Request("POST", "/signal", Body("json", Dict(d))) : d \in ConcPayloads}

-----------------------------------------------------------------------------
(* URL map of the application: route -> methods *)

Routes == [route \in {"/signal", "/health", "/test", "/"} |->
             CASE route = "/signal" -> {"POST"}
               [] route = "/test" -> {"GET", "POST"}
               [] OTHER -> {"GET"}]

Matches(q, route) ==
    q.route = route /\ q.method \in Routes[route]

Reqs == DOMAIN req

InitWith(ids, offered) ==
    /\ req \in [ids -> offered]
    /\ pc = [r \in ids |-> "recv"]
    /\ data = [r \in ids |-> Undecoded]
    /\ token = [r \in ids |-> <<>>]
    /\ conf = [r \in ids |-> Absent]
    /\ message = [r \in ids |-> Absent]
    /\ chat = [r \in ids |-> Absent]
    /\ nowRead = [r \in ids |-> 0]
    /\ posts = [r \in ids |-> <<>>]
    /\ remote = [r \in ids |-> NoOutcome]
    /\ sent = [r \in ids |-> NoPair]
    /\ fault = [r \in ids |-> ""]
    /\ resp = [r \in ids |-> NoResponse]
    /\ clock = Clock0
    /\ build \in {"old", "new"}

Init == InitWith({1}, Requests)
InitConc == InitWith(1..NumReqs, ConcRequests)

(* return jsonify(...), code: the handler of request r ends *)
Return(r, response, exc) ==
    /\ resp' = [resp EXCEPT ![r] = response]
    /\ fault' = [fault EXCEPT ![r] = exc]
    /\ pc' = [pc EXCEPT ![r] = "done"]

(* an exception reaches the except clauses that close receive_signal *)
Caught(r, exc) == Return(r, ReceiveSignalExcept(exc), exc)

(* lines 118-124: decode the body, reject an empty one, log the signal *)
Decode(r) ==
    /\ pc[r] = "recv"
    /\ Matches(req[r], "/signal")
    /\ LET g == get_json(req[r].body, build)
       IN  IF g.exc # "" THEN Caught(r, g.exc) /\ UNCHANGED data
           ELSE IF ~Truthy(g.val)
                THEN /\ Return(r, Response(400, "error", Str(<<"No data received">>), ""), "")
                     /\ data' = [data EXCEPT ![r] = g.val]
           ELSE IF ~g.val.isdict
                THEN Caught(r, "AttributeError") /\ data' = [data EXCEPT ![r] = g.val]
           ELSE /\ data' = [data EXCEPT ![r] = g.val]
                /\ pc' = [pc EXCEPT ![r] = "validating"]
                /\ UNCHANGED <<resp, fault>>
    /\ UNCHANGED <<req, token, conf, message, chat, nowRead, posts, remote, sent,
                   clock, build>>

(* lines 126-158: required fields, token format, numeric data *)
Validate(r) ==
    /\ pc[r] = "validating"
    /\ LET d == data[r].obj
           missing_fields == MissingFields(d)
           bot_token == BotToken(d)
           num == NumericCheck(d)
       IN  IF missing_fields # <<>>
           THEN /\ Return(r, Response(400, "error",
                            Str(<<"Missing required fields: ">> \o missing_fields), ""), "")
                /\ UNCHANGED <<token, conf>>
           ELSE IF InvalidToken(bot_token)
           THEN /\ Return(r, Response(400, "error",
                            Str(<<"Invalid bot token format">>), ""), "")
                /\ token' = [token EXCEPT ![r] = bot_token]
                /\ UNCHANGED conf
           ELSE IF num.exc \in {"ValueError", "TypeError"}
           THEN /\ Return(r, Response(400, "error",
                            Str(<<"Invalid numeric data: ">> \o ErrText(num)), ""), "")
                /\ token' = [token EXCEPT ![r] = bot_token]
                /\ UNCHANGED conf
           ELSE IF num.exc # ""
           THEN /\ Caught(r, num.exc)
                /\ token' = [token EXCEPT ![r] = bot_token]
                /\ UNCHANGED conf
           ELSE /\ token' = [token EXCEPT ![r] = bot_token]
                /\ conf' = [conf EXCEPT ![r] = num.val]
                /\ pc' = [pc EXCEPT ![r] = "formatting"]
                /\ UNCHANGED <<resp, fault>>
    /\ UNCHANGED <<req, data, message, chat, nowRead, posts, remote, sent, clock, build>>

(* faulty variant: the decoded payload is kept in one module-level variable, so the
   formatter reads the payload of the latest request that has one *)
FormatShared(r) ==
    /\ pc[r] = "formatting"
    /\ nowRead' = [nowRead EXCEPT ![r] = clock]
    /\ LET q == CHOOSE x \in Reqs : data[x].isdict /\ \A y \in Reqs : data[y].isdict => y <= x
           m == format_signal(data[q].obj, clock)
       IN  IF m.exc # "" THEN Caught(r, m.exc) /\ UNCHANGED <<message, chat>>
           ELSE /\ message' = [message EXCEPT ![r] = m.val]
                /\ chat' = [chat EXCEPT ![r] = ChatId(data[q].obj)]
                /\ pc' = [pc EXCEPT ![r] = "sending"]
                /\ UNCHANGED <<resp, fault>>
    /\ UNCHANGED <<req, data, token, conf, posts, remote, sent, clock, build>>

(* lines 160-164: format the message, pick the destination *)
Format(r) ==
    /\ pc[r] = "formatting"
    /\ nowRead' = [nowRead EXCEPT ![r] = clock]
    /\ LET m == format_signal(data[r].obj, clock)
       IN  IF m.exc # "" THEN Caught(r, m.exc) /\ UNCHANGED <<message, chat>>
           ELSE /\ message' = [message EXCEPT ![r] = m.val]
                /\ chat' = [chat EXCEPT ![r] = ChatId(data[r].obj)]
                /\ pc' = [pc EXCEPT ![r] = "sending"]
                /\ UNCHANGED <<resp, fault>>
    /\ UNCHANGED <<req, data, token, conf, posts, remote, sent, clock, build>>

(* faulty variant: the POST is issued a second time, as a blind retry *)
SendRetry(r) ==
    /\ pc[r] = "sending"
    /\ posts' = [posts EXCEPT ![r] = @ \o <<OutboundPost(token[r], message[r], chat[r]),
                                              OutboundPost(token[r], message[r], chat[r])>>]
    /\ pc' = [pc EXCEPT ![r] = "awaiting"]
    /\ UNCHANGED <<req, data, token, conf, message, chat, nowRead, remote, sent, fault,
                   resp, clock, build>>

(* lines 167, 77-87: the outbound POST is issued *)
Send(r) ==
    /\ pc[r] = "sending"
    /\ posts' = [posts EXCEPT ![r] = Append(@, OutboundPost(token[r], message[r], chat[r]))]
    /\ pc' = [pc EXCEPT ![r] = "awaiting"]
    /\ UNCHANGED <<req, data, token, conf, message, chat, nowRead, remote, sent, fault,
                   resp, clock, build>>

(* lines 88-110, 169-183: the remote call ends, the handler answers *)
Reply(r, outcomes) ==
    /\ pc[r] = "awaiting"
    /\ \E o \in outcomes :
         LET pair == send_to_telegram(posts[r][Len(posts[r])].url, o, build)
         IN  /\ remote' = [remote EXCEPT ![r] = o]
             /\ sent' = [sent EXCEPT ![r] = pair]
             /\ Return(r, IF pair.success THEN SuccessResponse(data[r].obj, conf[r])
                          ELSE FailureResponse(pair.error_msg), "")
    /\ UNCHANGED <<req, data, token, conf, message, chat, nowRead, posts, clock, build>>

-----------------------------------------------------------------------------
(* The other routes and the fallback handlers *)

Simple(r, response, exc) ==
    /\ pc[r] = "recv"
    /\ Return(r, response, exc)
    /\ UNCHANGED <<req, data, token, conf, message, chat, nowRead, posts, remote, sent,
                   clock, build>>

health_check == Response(200, "healthy", Absent, "service,version,timestamp,uptime")

api_documentation == Response(200, "operational", Absent, "service,version,endpoints")

(* test_endpoint: GET lists the endpoints, POST echoes request.get_json() or {} *)
test_endpoint(q, lib) ==
    IF q.method = "GET"
    THEN Response(200, "success",
                  Str(<<"Karoospikes Webhook Server is operational!">>), "endpoints")
    ELSE LET g == get_json(q.body, lib)
         IN  IF g.exc # ""
             THEN Response(400, "error", Str(<<"Test failed: ", g.exc>>), "")
             ELSE Response(200, "success",
                           Str(<<"Test signal received successfully">>), "received_data")

not_found ==
    Response(404, "error", Str(<<"Endpoint not found">>), "available_endpoints")

method_not_allowed == Response(405, "error", Str(<<"Method not allowed">>), "")

internal_error == Response(500, "error", Str(<<"Internal server error">>), "")

HealthCheck(r) == Matches(req[r], "/health") /\ Simple(r, health_check, "")

ApiDocumentation(r) == Matches(req[r], "/") /\ Simple(r, api_documentation, "")

TestEndpoint(r) ==
    /\ Matches(req[r], "/test")
    /\ Simple(r, test_endpoint(req[r], build),
              IF req[r].method = "POST" THEN get_json(req[r].body, build).exc ELSE "")

NotFound(r) ==
    /\ req[r].route \notin DOMAIN Routes
    /\ Simple(r, not_found, "")

MethodNotAllowed(r) ==
    /\ req[r].route \in DOMAIN Routes
    /\ req[r].method \notin Routes[req[r].route]
    /\ Simple(r, method_not_allowed, "")

(* the wall clock advances *)
Tick ==
    /\ clock < Clock0 + MaxTicks
    /\ clock' = clock + 1
    /\ UNCHANGED <<req, pc, data, token, conf, message, chat, nowRead, posts, remote,
                   sent, fault, resp, build>>

Next ==
    \/ \E r \in Reqs : Decode(r)
    \/ \E r \in Reqs : Validate(r)
    \/ \E r \in Reqs : Format(r)
    \/ \E r \in Reqs : Send(r)
    \/ \E r \in Reqs : Reply(r, RemoteOutcomes)
    \/ \E r \in Reqs : HealthCheck(r)
    \/ \E r \in Reqs : ApiDocumentation(r)
    \/ \E r \in Reqs : TestEndpoint(r)
    \/ \E r \in Reqs : NotFound(r)
    \/ \E r \in Reqs : MethodNotAllowed(r)
    \/ Tick

(* one request at a time, every request a caller can send *)
Spec == Init /\ [][Next]_vars

(* the steps of the POST /signal handlers of the requests in flight *)
NextConc ==
    \/ \E r \in Reqs : Decode(r)
    \/ \E r \in Reqs : Validate(r)
    \/ \E r \in Reqs : Format(r)
    \/ \E r \in Reqs : Send(r)
    \/ \E r \in Reqs : Reply(r, ConcOutcomes)
    \/ Tick

(* NumReqs POST /signal requests in flight at once *)
SpecConc == InitConc /\ [][NextConc]_vars

-----------------------------------------------------------------------------
(* Properties *)

Done(r) == pc[r] = "done"
IsSignal(r) == Matches(req[r], "/signal")
Payload_(r) == req[r].body.value.obj
IsObject(r) == req[r].body.kind = "json" /\ req[r].body.value.isdict

Contains(msg, part) ==
    /\ msg.t = "str"
    /\ part.t = "str"
    /\ \E i \in 0..(Len(msg.s) - Len(part.s)) :
         SubSeq(msg.s, i + 1, i + Len(part.s)) = part.s

StartsWith(msg, chunk) == msg.t = "str" /\ msg.s # <<>> /\ msg.s[1] = chunk

(* the validator accepts the payload *)
PassesValidation(d) ==
    /\ MissingFields(d) = <<>>
    /\ ~InvalidToken(BotToken(d))
    /\ NumericCheck(d).exc = ""

(* a price that denotes a number strictly greater than 0 *)
PositivePrice(x) ==
    LET f == PyFloat(x)
    IN  f.exc = "" /\ (f.val.t = "inf" \/ (f.val.t = "num" /\ f.val.n > 0))

IntConfidence(x) ==
    LET c == PyInt(x)
    IN  c.exc = "" /\ c.val.n >= 0 /\ c.val.n <= MaxConfidence * Micro

(* validity as the data model states it *)
ValidPayload(d) ==
    /\ \A i \in 1..Len(Required) : d[Required[i]].t \notin {"absent", "None"}
    /\ ~InvalidToken(BotToken(d))
    /\ PositivePrice(d["entry_price"])
    /\ PositivePrice(d["tp_price"])
    /\ PositivePrice(d["sl_price"])
    /\ IntConfidence(Get(d, "confidence", Num(0)))

(* C1: a POST /signal whose body is absent or is not well-formed JSON is answered
   with 400, never 500, also when request.get_json raises. *)
C1_BadBodyIs400 ==
    \A r \in Reqs :
        (IsSignal(r) /\ Done(r) /\ req[r].body.kind \in {"absent", "malformed"})
            => resp[r].code = 400

(* C2: a payload that passes validation is formatted and handed to the forwarder;
   the answer is 200 "success" with the echoed signal_type, symbol and confidence
   exactly when the forwarder succeeds, and 500 with the forwarder's diagnostic
   exactly when it fails; no such request is answered without the forwarder. *)
C2_ValidatedIsForwarded ==
    \A r \in Reqs :
        (IsSignal(r) /\ Done(r) /\ IsObject(r) /\ ValidPayload(Payload_(r))) =>
            /\ Len(posts[r]) = 1
            /\ remote[r] # NoOutcome
            /\ IF sent[r].success
               THEN /\ resp[r].code = 200
                    /\ resp[r].status = "success"
                    /\ resp[r].signal_type = Payload_(r)["signal_type"]
                    /\ resp[r].symbol = Payload_(r)["symbol"]
                    /\ resp[r].confidence = PyInt(Get(Payload_(r), "confidence", Num(0))).val
               ELSE /\ resp[r].code = 500
                    /\ Contains(resp[r].message, Str(PyStr(sent[r].error_msg)))

(* C3: a decoded JSON object that lacks, or has null for, a required field is
   answered with 400 and a message that names every missing field; the empty
   object is such an object. *)
C3_MissingFieldsNamed ==
    \A r \in Reqs :
        (IsSignal(r) /\ Done(r) /\ IsObject(r)) =>
            \A i \in 1..Len(Required) :
                Payload_(r)[Required[i]].t \in {"absent", "None"} =>
                    /\ resp[r].code = 400
                    /\ Contains(resp[r].message, Str(<<Required[i]>>))

(* C4: with all required fields present and a well-formed token, a price that is
   not a number or is not strictly positive is answered with 400 "Invalid numeric
   data" and nothing is forwarded; not-a-number does not pass the price check. *)
C4_BadPriceRejected ==
    \A r \in Reqs :
        (/\ IsSignal(r) /\ Done(r) /\ IsObject(r)
         /\ MissingFields(Payload_(r)) = <<>>
         /\ ~InvalidToken(BotToken(Payload_(r)))
         /\ \E k \in {"entry_price", "tp_price", "sl_price"} :
                ~PositivePrice(Payload_(r)[k])) =>
            /\ resp[r].code = 400
            /\ StartsWith(resp[r].message, "Invalid numeric data: ")
            /\ posts[r] = <<>>

RejectedWithDescription(o) ==
    /\ o.kind = "response"
    /\ o.body = "object"
    /\ o.status >= 400 \/ ~OkTruthy(o)
    /\ o.desc.t = "str"

(* C6: when the remote API rejects the send, by a non-2xx status or by a JSON
   body whose ok is false, the forwarder's diagnostic carries the remote
   description and the 500 response carries it to the caller. *)
C6_RemoteDescriptionPropagated ==
    \A r \in Reqs :
        (Done(r) /\ RejectedWithDescription(remote[r])) =>
            /\ ~sent[r].success
            /\ Contains(sent[r].error_msg, remote[r].desc)
            /\ resp[r].code = 500
            /\ Contains(resp[r].message, remote[r].desc)

ErrorEnvelope(response) ==
    /\ response.status = "error"
    /\ response.message.t = "str"
    /\ response.message.s # <<>>

(* C7: every 400, 404, 405 and 500 response has status "error" and a string
   message, no "error" body is sent with 200, and the 500 for an internal fault
   says only 'Internal server error'. *)
C7_ErrorEnvelope ==
    /\ ErrorEnvelope(internal_error) /\ internal_error.code = 500
    /\ \A r \in Reqs :
          Done(r) =>
            /\ resp[r].code \in {200, 400, 404, 405, 500}
            /\ resp[r].code # 200 => ErrorEnvelope(resp[r])
            /\ resp[r].status = "error" => resp[r].code # 200
            /\ (fault[r] # "" /\ resp[r].code = 500) =>
                  resp[r] = Response(500, "error", Str(<<"Internal server error">>), "")

C7_Witness ==
    \E r \in Reqs :
        /\ Done(r) /\ IsSignal(r) /\ fault[r] = "ValueError"
        /\ resp[r].code = 500 /\ posts[r] = <<>>

(* the failure categories of what the remote call did; a body that cannot be
   decoded counts as a transport failure or as an unexpected one *)
OutcomeCategory(o) ==
    CASE o.kind = "timeout" -> {"timeout"}
      [] o.kind = "transport" -> {"transport"}
      [] o.status >= 400 -> {"rejected"}
      [] o.body = "undecodable" -> {"transport", "unexpected"}
      [] o.body # "object" -> {"unexpected"}
      [] OkTruthy(o) -> {"success"}
      [] OTHER -> {"rejected"}

(* the failure category a diagnostic announces *)
DiagCategory(msg) ==
    CASE msg.t # "str" \/ msg.s = <<>> -> "none"
      [] msg.s[1] = "Success" -> "success"
      [] msg.s[1] = "Request timeout" -> "timeout"
      [] msg.s[1] = "Network error: " -> "transport"
      [] msg.s[1] = "Unexpected error: " -> "unexpected"
      [] OTHER -> "rejected"

(* C8: send_to_telegram returns one (flag, diagnostic string) pair for every
   behaviour of the remote call, the flag true only for a JSON body whose ok is
   truthy, and timeout, transport failure, remote rejection and other failure
   have diagnostics that tell them apart. *)
C8_ForwarderOutcomes ==
    \A r \in Reqs :
        (Done(r) /\ remote[r] # NoOutcome) =>
            /\ sent[r].error_msg.t = "str"
            /\ sent[r].success => (remote[r].body = "object" /\ OkTruthy(remote[r]))
            /\ DiagCategory(sent[r].error_msg) \in OutcomeCategory(remote[r])

(* the lines of a text, "\n" ending each but the last *)
LineStarts(cs) == {i \in 1..Len(cs) : i = 1 \/ cs[i - 1] = "\n"}
LineEnd(cs, i) ==
    LET ends == {j \in i..Len(cs) : cs[j] = "\n"}
    IN  IF ends = {} THEN Len(cs)
        ELSE (CHOOSE j \in ends : \A k \in ends : j <= k) - 1

PriceLabels == {"Entry: ", "Take Profit: ", "Stop Loss: "}
PriceLines(cs) == {i \in LineStarts(cs) : cs[i] \in PriceLabels}

(* the line that starts at i ends with a point and exactly 5 digits *)
FiveDecimals(cs, i) ==
    LET e == LineEnd(cs, i)
    IN  /\ e - 6 > i
        /\ cs[e - 5] = "."
        /\ \A j \in (e - 4)..e : IsDigit(cs[j])
        /\ \A j \in (i + 1)..(e - 6) : IsDigit(cs[j])

(* C9: for every payload the validator accepts the formatter returns, without
   faulting, a message with exactly three price lines, each with exactly 5
   digits after the decimal point. *)
C9_FiveDecimalPrices ==
    \A r \in Reqs :
        (conf[r] # Absent /\ pc[r] # "formatting") =>
            /\ message[r].t = "str"
            /\ Cardinality(PriceLines(message[r].s)) = 3
            /\ \A i \in PriceLines(message[r].s) : FiveDecimals(message[r].s, i)

(* what the handler of r must produce from its own payload, its own clock
   reading and the outcome of its own outbound call *)
OwnPost(r) ==
    OutboundPost(BotToken(Payload_(r)),
                 format_signal(Payload_(r), nowRead[r]).val, ChatId(Payload_(r)))

OwnResponse(r) ==
    LET pair == send_to_telegram(OwnPost(r).url, remote[r], build)
    IN  IF pair.success
        THEN SuccessResponse(Payload_(r), PyInt(Get(Payload_(r), "confidence", Num(0))).val)
        ELSE FailureResponse(pair.error_msg)

ReadsClock(r) == Payload_(r)["timestamp"].t \notin {"num", "bool"}

(* C10 as stated: the response and the outbound POST of a request are determined
   by its payload and the outcome of its outbound call alone. *)
C10_PayloadAndOutcomeOnly ==
    \A r1, r2 \in Reqs :
        (Done(r1) /\ Done(r2) /\ req[r1] = req[r2] /\ remote[r1] = remote[r2]) =>
            resp[r1] = resp[r2] /\ posts[r1] = posts[r2]

(* C10 amended: the response and the outbound POST of a request are determined
   by its payload, the outcome of its outbound call and, when the payload has
   no numeric timestamp, the clock reading its formatter took; no other
   request in flight has a part in them. *)
C10_Independent ==
    /\ \A r1, r2 \in Reqs :
          (/\ Done(r1) /\ Done(r2) /\ req[r1] = req[r2] /\ remote[r1] = remote[r2]
           /\ ReadsClock(r1) => nowRead[r1] = nowRead[r2]) =>
              resp[r1] = resp[r2] /\ posts[r1] = posts[r2]
    /\ \A r \in Reqs :
          /\ posts[r] # <<>> => posts[r] = <<OwnPost(r)>>
          /\ (Done(r) /\ remote[r] # NoOutcome) => resp[r] = OwnResponse(r)

C10_Witness ==
    \E r1, r2 \in Reqs :
        /\ r1 # r2 /\ Done(r1) /\ Done(r2)
        /\ req[r1] = req[r2] /\ remote[r1] = remote[r2] /\ sent[r1].success
        /\ ReadsClock(r1) /\ nowRead[r1] = nowRead[r2]

====
